---- MODULE Spec2Model ----
(***************************************************************************)
(* koishi-plugin-sticker-convert (src/src/index.ts): the per-channel       *)
(* sticker archive.  Rows of the table sticker_archive, the blob files of  *)
(* the storage directory, and the command handlers convertEmojiOnly,      *)
(* convertEmoji, viewAlbum, sendEmoji, deleteEmoji and clearAlbum, run by  *)
(* chat sessions.                                                         *)
(* Sessions run concurrently: a handler gives up control at every await,   *)
(* so one action below is one awaited operation taking effect (a database  *)
(* call, a file write, a send) or one synchronous block of file-system     *)
(* calls (existsSync / unlinkSync).                                        *)
(*                                                                         *)
(* Modelling decisions:                                                    *)
(*  - a content is a small integer; its md5 digest is taken to be          *)
(*    injective, so the digest is written as the same integer;             *)
(*  - new Date() is a logical clock that ticks at every read, so no two    *)
(*    rows carry the same createdAt; the date part used in blob file names *)
(*    is the separate counter today;                                       *)
(*  - an awaited operation may fail (throw): the fault is a                *)
(*    nondeterministic outcome of the step, at most MaxFaults per run.     *)
(***************************************************************************)
EXTENDS Integers, Sequences, FiniteSets, TLC

VARIABLES
  config,    \* the plugin's Config (read-only)
  scn,       \* the scenario: which sessions exist and what they may send
  records,   \* the rows of table sticker_archive
  nextId,    \* the table's auto-increment counter
  files,     \* the blob files of storageDir: a set of [path, data]
  now,       \* the clock new Date() reads (createdAt)
  today,     \* the date new Date() reads (blob file names)
  temps,     \* the temp_<time>_<name> files of storageDir
  timers,    \* the temp files whose delayed deletion (setTimeout) is pending
  st,        \* per session: the handler's position and local variables
  budget,    \* work items (batch items, commands) still to be started
  faults     \* failures injected so far

vars == <<config, scn, records, nextId, files, temps, timers, now, today, st, budget, faults>>

-----------------------------------------------------------------------------
(* Bounds of the model *)

MaxCmds == 2        \* work items of the concurrent scenario
MaxSeqItems == 8    \* batch items of the sequential ingest scenario
MaxBatch == 2       \* image elements in one quoted message
MaxFaults == 1      \* injected failures per run
MaxDay == 1         \* date changes per run

(* Program constants *)

MinAlbumMaxSize == 5         \* Schema.number().min(5)
DefaultDeleteLevel == 3      \* deletePermissionLevel default
MaxDeleteLevel == 5          \* the highest deletePermissionLevel of the schema
pageSize == 8                \* viewAlbum's page size

Procs == {"p1", "p2"}
Channels == {"A", "B"}
Confirm == <<"Y">>           \* the confirm word of clearAlbum

-----------------------------------------------------------------------------
(* Content fingerprinting: downloadImage, getExtFromMime, md5 *)

Headers == <<"89504e47", "47494638", "ffd8ff", "RIFF", "other">>

Header(c) == Headers[((c - 1) % Len(Headers)) + 1]

DetectMime(hdr) ==
  IF hdr = "89504e47" THEN "image/png"
  ELSE IF hdr = "ffd8ff" THEN "image/jpeg"
  ELSE IF hdr = "47494638" THEN "image/gif"
  ELSE IF hdr = "RIFF" THEN "image/webp"
  ELSE "image/unknown"

getExtFromMime(mime) ==
  IF mime = "image/png" THEN "png"
  ELSE IF mime = "image/jpeg" THEN "jpg"
  ELSE IF mime = "image/gif" THEN "gif"
  ELSE IF mime = "image/webp" THEN "webp"
  ELSE "jpg"

Mime(c) == DetectMime(Header(c))

Md5(c) == c

IsGif(c) == Mime(c) = "image/gif"

(* saveFile's file name: date, digest, extension *)
BlobPath(day, c) == [day |-> day, md5 |-> Md5(c), ext |-> getExtFromMime(Mime(c))]

NoPath == [day |-> 0, md5 |-> 0, ext |-> ""]

(* md5.substring(0, 8): the digest's first characters, which distinct digests
   may share *)
PrefixSpace == 4

Md5Prefix(c) == Md5(c) % PrefixSpace

(* convertEmojiOnly's file name temp-<md5 prefix>.<ext>; the day -1 stands
   for the prefix "temp" in place of a date *)
ConvertName(c) == [day |-> -1, md5 |-> Md5Prefix(c), ext |-> getExtFromMime(Mime(c))]

-----------------------------------------------------------------------------
(* The row store and the blob file system *)

Row(id, ch, c, path, at) ==
  [id |-> id, channelId |-> ch, md5 |-> Md5(c), mime |-> Mime(c),
   isGif |-> IsGif(c), filePath |-> path, createdAt |-> at]

ChannelRecords(ch) == {r \in records : r.channelId = ch}

RECURSIVE SortAsc(_)
(* The select with the order reversed: oldest first *)
SortAsc(S) ==
  IF S = {} THEN <<>>
  ELSE LET r == CHOOSE x \in S : \A y \in S : x.createdAt <= y.createdAt
       IN <<r>> \o SortAsc(S \ {r})

RECURSIVE SortDesc(_)
(* .orderBy('createdAt', 'desc') *)
SortDesc(S) ==
  IF S = {} THEN <<>>
  ELSE LET r == CHOOSE x \in S : \A y \in S : y.createdAt <= x.createdAt
       IN <<r>> \o SortDesc(S \ {r})

existsSync(path) == \E f \in files : f.path = path

Unlinked(path) == {f \in files : f.path # path}

(* A write that ends before the buffer has reached the file: the file is
   created empty *)
WrittenEmpty(path, data) == Unlinked(path) \cup {[path |-> path, data |-> 0]}

Written(path, data) == Unlinked(path) \cup {[path |-> path, data |-> data]}

ReadData(path) == (CHOOSE f \in files : f.path = path).data

SeqToSet(s) == {s[i] : i \in 1..Len(s)}

-----------------------------------------------------------------------------
(* Permission gate *)

(* checkUserPermission with the admin test placed before the owner test *)
checkUserPermissionAdminFirst(session) ==
  IF session.isDirect \/ ~session.hasAuthor THEN 1
  ELSE IF "admin" \in session.roles THEN 3
  ELSE IF "owner" \in session.roles THEN 4
  ELSE IF "trusted" \in session.roles THEN 2
  ELSE 1

checkUserPermission(session) ==
  IF session.isDirect \/ ~session.hasAuthor THEN 1
  ELSE IF "owner" \in session.roles THEN 4
  ELSE IF "admin" \in session.roles THEN 3
  ELSE IF "trusted" \in session.roles THEN 2
  ELSE 1

(* hasDeletePermission compared with the schema's default threshold instead
   of the configured one *)
hasDeletePermissionDefault(session) ==
  checkUserPermission(session) >= DefaultDeleteLevel

hasDeletePermission(session) ==
  checkUserPermission(session) >= config.deletePermissionLevel

(* isAlbumEnabledForGroup without the allowlist: the toggle alone decides *)
isAlbumEnabledForGroupToggleOnly(ch) == config.enableAlbum

isAlbumEnabledForGroup(ch) ==
  IF ~config.enableAlbum THEN FALSE
  ELSE IF config.albumEnabledGroups = {} THEN TRUE
  ELSE ch \in config.albumEnabledGroups

-----------------------------------------------------------------------------
(* Sessions *)

NoSess ==
  [platform |-> "", channelId |-> "", isDirect |-> FALSE, hasAuthor |-> FALSE,
   roles |-> {}]

NoTmp == [t |-> 0, name |-> NoPath]

NoRec ==
  [id |-> 0, channelId |-> "", md5 |-> 0, mime |-> "", isGif |-> FALSE,
   filePath |-> NoPath, createdAt |-> 0]

NoRet == [kind |-> "none", n |-> 0]

NoReply == [got |-> FALSE, text |-> <<>>]

Idle ==
  [pc |-> "idle", cmd |-> "none", sess |-> NoSess, level |-> 0, idx |-> 0, n |-> 0,
   left |-> 0,
   buf |-> 0, isGif |-> FALSE, mime |-> "", path |-> NoPath, tmp |-> NoTmp,
   stamp |-> 0, snap |-> <<>>, ev |-> <<>>, logged |-> 0, rec |-> NoRec, all |-> {},
   reply |-> NoReply, lines |-> <<>>, ok |-> 0, sends |-> <<>>, ret |-> NoRet]

Line(kind, n) == [kind |-> kind, n |-> n]

Payload(type, data, mime, ref) ==
  [type |-> type, data |-> data, mime |-> mime, ref |-> ref]

AtRest(p) == st[p].pc \in {"idle", "done"}

Set(p, s) == st' = [st EXCEPT ![p] = s]

Return(s, kind, n) == [s EXCEPT !.pc = "done", !.ret = Line(kind, n)]

CanFail == faults < scn.maxFaults

Fault == faults' = faults + 1

NoFault == UNCHANGED faults

DefaultConfig ==
  [enableAlbum |-> TRUE, albumEnabledGroups |-> {},
   albumMaxSize |-> MinAlbumMaxSize, albumShowImages |-> TRUE,
   deletePermissionLevel |-> DefaultDeleteLevel,
   staticImageMode |-> "buffer", gifMode |-> "file", fileTransferMode |-> "buffer"]

-----------------------------------------------------------------------------
(* convertEmoji: the ingest batch *)

(* The transfer mode of the item's kind, and the first awaited step of it *)
ModeOf(isGif) == IF isGif THEN config.gifMode ELSE config.staticImageMode

(* DeliverEntry taking the temp-file branch of sendFileWithName whatever
   fileTransferMode says *)
DeliverEntryAlwaysTemp(s, isGif, forceBuffer) ==
  IF ModeOf(isGif) = "file" THEN [s EXCEPT !.pc = "tmpwrite"]
  ELSE [s EXCEPT !.pc = "sendimg"]

DeliverEntry(s, isGif, forceBuffer) ==
  IF ModeOf(isGif) = "file"
  THEN IF config.fileTransferMode = "buffer" \/ forceBuffer
       THEN [s EXCEPT !.pc = "tmpwrite"]
       ELSE [s EXCEPT !.pc = "sendfile"]
  ELSE [s EXCEPT !.pc = "sendimg"]

(* The end of one loop iteration: the next element, or the summary and return *)
NextItem(s) ==
  IF s.left > 0 THEN [s EXCEPT !.pc = "item"]
  ELSE [s EXCEPT !.pc = "done", !.ret = Line("batch", s.ok),
                 !.lines = IF s.ok > 0 THEN <<Line("summary", s.ok)>> \o @ ELSE @]

(* ItemFailed with the throw leaving the loop: the batch returns at once *)
ItemFailedAborts(s) ==
  [s EXCEPT !.lines = Append(@, Line("fail", s.buf)), !.pc = "done",
            !.ret = Line("batch", s.ok)]

(* catch (error) { results.push(`转存失败`) } of the loop body *)
ItemFailed(s) == NextItem([s EXCEPT !.lines = Append(@, Line("fail", s.buf))])

(* The checks of convertEmoji before the loop; quote is the number of image
   elements of the quoted message, -1 when no message is quoted *)
StartIngest(p) ==
  /\ p \in scn.procs /\ AtRest(p)
  /\ \E sess \in scn.sessions, quote \in scn.quotes :
       LET s0 == [Idle EXCEPT !.cmd = "ingest", !.sess = sess]
           s1 == IF sess.platform # "onebot" THEN Return(s0, "notonebot", 0)
                 ELSE IF ~isAlbumEnabledForGroup(sess.channelId)
                      THEN Return(s0, "disabled", 0)
                 ELSE IF quote = -1 THEN Return(s0, "noquote", 0)
                 ELSE IF quote = 0 THEN Return(s0, "noimages", 0)
                 ELSE [s0 EXCEPT !.pc = "item", !.n = quote, !.left = quote]
           cost == IF s1.pc = "item" THEN quote ELSE 1
       IN /\ budget >= cost
          /\ budget' = budget - cost
          /\ Set(p, s1)
  /\ UNCHANGED <<config, scn, records, nextId, files, temps, timers, now, today, faults>>

(* The checks of convertEmojiOnly before the loop: no album check *)
StartConvert(p) ==
  /\ p \in scn.procs /\ AtRest(p)
  /\ \E sess \in scn.sessions, quote \in scn.quotes :
       LET s0 == [Idle EXCEPT !.cmd = "convert", !.sess = sess]
           s1 == IF sess.platform # "onebot" THEN Return(s0, "notonebot", 0)
                 ELSE IF quote = -1 THEN Return(s0, "noquote", 0)
                 ELSE IF quote = 0 THEN Return(s0, "noimages", 0)
                 ELSE [s0 EXCEPT !.pc = "item", !.n = quote, !.left = quote]
           cost == IF s1.pc = "item" THEN quote ELSE 1
       IN /\ budget >= cost
          /\ budget' = budget - cost
          /\ Set(p, s1)
  /\ UNCHANGED <<config, scn, records, nextId, files, temps, timers, now, today, faults>>

(* The loop head: the element's url *)
Item(p) ==
  /\ st[p].pc = "item" /\ st[p].cmd \in {"ingest", "convert"}
  /\ LET s == [st[p] EXCEPT !.left = @ - 1, !.buf = 0, !.isGif = FALSE, !.mime = "",
                            !.path = NoPath, !.tmp = NoTmp, !.stamp = 0]
     IN \/ Set(p, [s EXCEPT !.pc = "fetch"])
        \/ Set(p, NextItem([s EXCEPT !.lines = Append(@, Line("warn", 0))]))
  /\ UNCHANGED <<config, scn, records, nextId, files, temps, timers, now, today,
                 budget, faults>>

(* Fetch sending every item, convertEmojiOnly's too, to the existence check
   of the ingest *)
FetchAlwaysIngests(p) ==
  /\ st[p].pc = "fetch" /\ st[p].cmd \in {"ingest", "convert"}
  /\ \/ /\ \E c \in scn.contents :
             LET s == [st[p] EXCEPT !.buf = c, !.isGif = IsGif(c), !.mime = Mime(c)]
             IN /\ scn.inOrder => c <= nextId
                /\ Set(p, [s EXCEPT !.pc = "exists"])
        /\ NoFault
     \/ /\ CanFail /\ Fault
        /\ Set(p, ItemFailed(st[p]))
  /\ UNCHANGED <<config, scn, records, nextId, files, temps, timers, now, today, budget>>

(* await downloadImage(url), then md5, ext, isGif; convertEmoji goes on to
   the existence check, convertEmojiOnly to the delivery with forceBuffer *)
Fetch(p) ==
  /\ st[p].pc = "fetch" /\ st[p].cmd \in {"ingest", "convert"}
  /\ \/ /\ \E c \in scn.contents :
             LET s == [st[p] EXCEPT !.buf = c, !.isGif = IsGif(c), !.mime = Mime(c)]
             IN /\ scn.inOrder => c <= nextId
                /\ Set(p, IF s.cmd = "ingest" THEN [s EXCEPT !.pc = "exists"]
                          ELSE DeliverEntry(s, s.isGif, TRUE))
        /\ NoFault
     \/ /\ CanFail /\ Fault
        /\ Set(p, ItemFailed(st[p]))
  /\ UNCHANGED <<config, scn, records, nextId, files, temps, timers, now, today, budget>>

Existing(ch, c) == {r \in records : r.channelId = ch /\ r.md5 = Md5(c)}

(* ExistsCheck with the hit's `continue` dropped: the line is pushed and the
   item goes on to the capacity check *)
ExistsCheckFallsThrough(p) ==
  /\ st[p].pc = "exists"
  /\ LET s == st[p]
         existing == Existing(s.sess.channelId, s.buf)
     IN IF existing # {}
        THEN \E e \in existing :
               Set(p, [s EXCEPT !.lines = Append(@, Line("dup", e.id)), !.pc = "clean"])
        ELSE Set(p, [s EXCEPT !.pc = "clean"])
  /\ UNCHANGED <<config, scn, records, nextId, files, temps, timers, now, today,
                 budget, faults>>

(* await ctx.database.get({channelId, md5}); a hit reports existing[0].id *)
ExistsCheck(p) ==
  /\ st[p].pc = "exists"
  /\ LET s == st[p]
         existing == Existing(s.sess.channelId, s.buf)
     IN IF existing # {}
        THEN \E e \in existing :
               Set(p, NextItem([s EXCEPT !.lines = Append(@, Line("dup", e.id))]))
        ELSE Set(p, [s EXCEPT !.pc = "clean"])
  /\ UNCHANGED <<config, scn, records, nextId, files, temps, timers, now, today,
                 budget, faults>>

(* records.slice(config.albumMaxSize): the slice taken one position later *)
ToDeleteKeepsFull(snap) ==
  IF Len(snap) > config.albumMaxSize
  THEN SubSeq(snap, config.albumMaxSize + 1, Len(snap))
  ELSE <<>>

(* records.slice(config.albumMaxSize - 1) of the newest-first list *)
ToDelete(snap) ==
  IF Len(snap) >= config.albumMaxSize
  THEN SubSeq(snap, config.albumMaxSize, Len(snap))
  ELSE <<>>

(* checkAndCleanAlbum: the select; logged counts the logger.warn calls of
   this run of the function *)
CleanSelect(p) ==
  /\ st[p].pc = "clean"
  /\ LET snap == SortDesc(ChannelRecords(st[p].sess.channelId))
         ev == ToDelete(snap)
     IN Set(p, [st[p] EXCEPT !.snap = snap, !.ev = ev, !.logged = 0,
                             !.pc = IF ev = <<>> THEN "save" ELSE "ev_unlink"])
  /\ UNCHANGED <<config, scn, records, nextId, files, temps, timers, now, today,
                 budget, faults>>

(* After one record of toDelete: the next one, or saveFile *)
EvictNext(s) ==
  [s EXCEPT !.ev = Tail(@), !.pc = IF Len(s.ev) > 1 THEN "ev_unlink" ELSE "save"]

(* EvictUnlink without the try around the record: the throw reaches
   convertEmoji's catch and the item fails *)
EvictUnlinkThrows(p) ==
  /\ st[p].pc = "ev_unlink"
  /\ \/ /\ files' = Unlinked(Head(st[p].ev).filePath)
        /\ Set(p, [st[p] EXCEPT !.pc = "ev_remove"])
        /\ NoFault
     \/ /\ CanFail /\ Fault
        /\ existsSync(Head(st[p].ev).filePath)
        /\ Set(p, ItemFailed([st[p] EXCEPT !.snap = <<>>, !.ev = <<>>]))
        /\ UNCHANGED files
  /\ UNCHANGED <<config, scn, records, nextId, temps, timers, now, today, budget>>

(* checkAndCleanAlbum: existsSync / unlinkSync of the record's blob; a throw
   is caught, logged, and the record is skipped *)
EvictUnlink(p) ==
  /\ st[p].pc = "ev_unlink"
  /\ \/ /\ files' = Unlinked(Head(st[p].ev).filePath)
        /\ Set(p, [st[p] EXCEPT !.pc = "ev_remove"])
        /\ NoFault
     \/ /\ CanFail /\ Fault
        /\ existsSync(Head(st[p].ev).filePath)
        /\ Set(p, EvictNext([st[p] EXCEPT !.logged = @ + 1]))
        /\ UNCHANGED files
  /\ UNCHANGED <<config, scn, records, nextId, temps, timers, now, today, budget>>

(* checkAndCleanAlbum: await ctx.database.remove({ id: record.id }) *)
EvictRemove(p) ==
  /\ st[p].pc = "ev_remove"
  /\ \/ /\ records' = {r \in records : r.id # Head(st[p].ev).id}
        /\ Set(p, EvictNext(st[p]))
        /\ NoFault
     \/ /\ CanFail /\ Fault
        /\ Set(p, EvictNext([st[p] EXCEPT !.logged = @ + 1]))
        /\ UNCHANGED records
  /\ UNCHANGED <<config, scn, nextId, files, temps, timers, now, today, budget>>

(* saveFile resolving with the path before the stream has written anything *)
SaveFileUnwritten(p) ==
  /\ st[p].pc = "save"
  /\ LET s == st[p]
         path == BlobPath(today, s.buf)
     IN \/ /\ Set(p, DeliverEntry([s EXCEPT !.path = path, !.snap = <<>>],
                                  s.isGif, FALSE))
           /\ NoFault
        \/ /\ CanFail /\ Fault
           /\ Set(p, ItemFailed([s EXCEPT !.snap = <<>>]))
  /\ UNCHANGED <<config, scn, records, nextId, files, temps, timers, now, today, budget>>

(* await saveFile(buffer, md5, ext) *)
SaveFile(p) ==
  /\ st[p].pc = "save"
  /\ LET s == st[p]
         path == BlobPath(today, s.buf)
     IN \/ /\ files' = Written(path, s.buf)
           /\ Set(p, DeliverEntry([s EXCEPT !.path = path, !.snap = <<>>],
                                  s.isGif, FALSE))
           /\ NoFault
        \/ /\ CanFail /\ Fault
           /\ Set(p, ItemFailed([s EXCEPT !.snap = <<>>]))
           /\ UNCHANGED files
  /\ UNCHANGED <<config, scn, records, nextId, temps, timers, now, today, budget>>

-----------------------------------------------------------------------------
(* Delivery: sendFileWithName and the embedded sends, as convertEmoji and
   sendEmoji use them *)

FileKind(s) == IF s.isGif THEN "gif_file" ELSE "img_file"

(* FallbackKind reporting the file line after the embedded fallback *)
FallbackKindAsFile(s) == IF s.isGif THEN "gif_file" ELSE "img_file"

FallbackKind(s) == IF s.isGif THEN "gif_fallback" ELSE "img"

EmbeddedKind(s) == IF s.isGif THEN "gif_image" ELSE "img"

EmbeddedMime(s) == IF s.isGif THEN "image/gif" ELSE s.mime

(* A delivery succeeded: convertEmoji pushes the line and calls
   database.create with createdAt: new Date(); sendEmoji returns the line *)
Delivered(s, kind) ==
  IF s.cmd = "ingest"
  THEN [s EXCEPT !.lines = Append(@, Line(kind, s.buf)), !.pc = "create", !.stamp = now]
  ELSE IF s.cmd = "convert"
  THEN NextItem([s EXCEPT !.lines = Append(@, Line(kind, s.buf)), !.ok = @ + 1])
  ELSE Return(s, kind, s.rec.id)

(* DeliveryFailed making another embedded attempt instead of ending the item *)
DeliveryFailedRetries(s) == [s EXCEPT !.pc = "sendimg"]

(* The embedded send threw: the item fails, or sendEmoji returns the failure *)
DeliveryFailed(s) ==
  IF s.cmd \in {"ingest", "convert"} THEN ItemFailed(s)
  ELSE Return(s, "sendfailed", s.rec.id)

(* The fileName argument of sendFileWithName: the blob's base name, or
   convertEmojiOnly's temp name *)
FileNameOf(s) == IF s.cmd = "convert" THEN ConvertName(s.buf) ELSE s.path

Tick(s) == now' = IF s.cmd = "ingest" THEN now + 1 ELSE now

(* sendFileWithName, buffer branch: the temp file is written *)
TmpWrite(p) ==
  /\ st[p].pc = "tmpwrite"
  /\ LET tmp == [t |-> now, name |-> FileNameOf(st[p])]
     IN \/ /\ temps' = temps \cup {tmp}
           /\ now' = now + 1
           /\ Set(p, [st[p] EXCEPT !.tmp = tmp, !.pc = "sendfile"])
           /\ NoFault
        \/ /\ CanFail /\ Fault
           /\ Set(p, [st[p] EXCEPT !.pc = "fallback"])
           /\ UNCHANGED <<temps, now>>
  /\ UNCHANGED <<config, scn, records, nextId, files, timers, today, budget>>

(* sendFileWithName: await session.send(h.file(...)); in the buffer branch the
   temp file's deletion is then scheduled *)
SendFile(p) ==
  /\ st[p].pc = "sendfile"
  /\ LET s == st[p]
         ref == IF s.tmp # NoTmp THEN s.tmp ELSE [t |-> 0, name |-> s.path]
     IN \/ /\ s.tmp # NoTmp \/ s.path # NoPath
           /\ Set(p, Delivered([s EXCEPT !.sends = Append(@, Payload("file", s.buf, "", ref))],
                               FileKind(s)))
           /\ timers' = IF s.tmp # NoTmp THEN timers \cup {s.tmp} ELSE timers
           /\ Tick(s)
           /\ NoFault
        \/ /\ CanFail /\ Fault
           /\ Set(p, [s EXCEPT !.pc = "fallback"])
           /\ UNCHANGED <<timers, now>>
  /\ UNCHANGED <<config, scn, records, nextId, files, temps, today, budget>>

(* The embedded send of the configured mode: await session.send(h.image(...)) *)
SendImage(p) ==
  /\ st[p].pc = "sendimg"
  /\ LET s == st[p]
     IN \/ /\ Set(p, Delivered([s EXCEPT !.sends =
                        Append(@, Payload("image", s.buf, EmbeddedMime(s), NoTmp))],
                      EmbeddedKind(s)))
           /\ Tick(s)
           /\ NoFault
        \/ /\ CanFail /\ Fault
           /\ Set(p, DeliveryFailed(s))
           /\ UNCHANGED now
  /\ UNCHANGED <<config, scn, records, nextId, files, temps, timers, today, budget>>

(* The embedded send after a failed file delivery *)
Fallback(p) ==
  /\ st[p].pc = "fallback"
  /\ LET s == st[p]
     IN \/ /\ Set(p, Delivered([s EXCEPT !.sends =
                        Append(@, Payload("image", s.buf, EmbeddedMime(s), NoTmp))],
                      FallbackKind(s)))
           /\ Tick(s)
           /\ NoFault
        \/ /\ CanFail /\ Fault
           /\ Set(p, DeliveryFailed(s))
           /\ UNCHANGED now
  /\ UNCHANGED <<config, scn, records, nextId, files, temps, timers, today, budget>>

(* The setTimeout callback of sendFileWithName *)
CleanupTemp ==
  /\ \E t \in timers :
       /\ timers' = timers \ {t}
       /\ temps' = temps \ {t}
  /\ UNCHANGED <<config, scn, records, nextId, files, now, today, st, budget, faults>>

(* Create with successCount++ placed before the insert: an insert that throws
   has already counted the item *)
CreateCountsFirst(p) ==
  /\ st[p].pc = "create"
  /\ LET s == st[p]
     IN \/ /\ records' = records \cup
                 {Row(nextId, s.sess.channelId, s.buf, s.path, s.stamp)}
           /\ nextId' = nextId + 1
           /\ Set(p, NextItem([s EXCEPT !.ok = @ + 1]))
           /\ NoFault
        \/ /\ CanFail /\ Fault
           /\ Set(p, ItemFailed([s EXCEPT !.ok = @ + 1]))
           /\ UNCHANGED <<records, nextId>>
  /\ UNCHANGED <<config, scn, files, temps, timers, now, today, budget>>

(* await ctx.database.create('sticker_archive', {...}); successCount++ *)
Create(p) ==
  /\ st[p].pc = "create"
  /\ LET s == st[p]
     IN \/ /\ records' = records \cup
                 {Row(nextId, s.sess.channelId, s.buf, s.path, s.stamp)}
           /\ nextId' = nextId + 1
           /\ Set(p, NextItem([s EXCEPT !.ok = @ + 1]))
           /\ NoFault
        \/ /\ CanFail /\ Fault
           /\ Set(p, ItemFailed(s))
           /\ UNCHANGED <<records, nextId>>
  /\ UNCHANGED <<config, scn, files, temps, timers, now, today, budget>>

-----------------------------------------------------------------------------
(* sendEmoji *)

(* The command's `if (!index)` and the album check *)
StartSend(p) ==
  /\ p \in scn.procs /\ AtRest(p) /\ budget >= 1
  /\ \E sess \in scn.sessions, index \in scn.indexes :
       LET s0 == [Idle EXCEPT !.cmd = "send", !.sess = sess, !.idx = index]
       IN Set(p, IF index = 0 THEN Return(s0, "noindex", 0)
                 ELSE IF ~isAlbumEnabledForGroup(sess.channelId)
                      THEN Return(s0, "disabled", 0)
                 ELSE [s0 EXCEPT !.pc = "send_select"])
  /\ budget' = budget - 1
  /\ UNCHANGED <<config, scn, records, nextId, files, temps, timers, now, today, faults>>

(* SendSelect over the records ordered oldest first *)
SendSelectOldestFirst(p) ==
  /\ st[p].pc = "send_select"
  /\ LET s == st[p]
         recs == SortAsc(ChannelRecords(s.sess.channelId))
     IN Set(p, IF s.idx < 1 \/ s.idx > Len(recs) THEN Return(s, "badindex", Len(recs))
               ELSE IF ~existsSync(recs[s.idx].filePath)
                    THEN Return([s EXCEPT !.rec = recs[s.idx]], "nofile", recs[s.idx].id)
               ELSE [s EXCEPT !.rec = recs[s.idx], !.pc = "send_read"])
  /\ UNCHANGED <<config, scn, records, nextId, files, temps, timers, now, today,
                 budget, faults>>

(* The newest-first select, the index check and existsSync(record.filePath) *)
SendSelect(p) ==
  /\ st[p].pc = "send_select"
  /\ LET s == st[p]
         recs == SortDesc(ChannelRecords(s.sess.channelId))
     IN Set(p, IF s.idx < 1 \/ s.idx > Len(recs) THEN Return(s, "badindex", Len(recs))
               ELSE IF ~existsSync(recs[s.idx].filePath)
                    THEN Return([s EXCEPT !.rec = recs[s.idx]], "nofile", recs[s.idx].id)
               ELSE [s EXCEPT !.rec = recs[s.idx], !.pc = "send_read"])
  /\ UNCHANGED <<config, scn, records, nextId, files, temps, timers, now, today,
                 budget, faults>>

(* await readFile(record.filePath), then the delivery by kind and mode *)
SendRead(p) ==
  /\ st[p].pc = "send_read"
  /\ LET s == st[p]
     IN \/ /\ existsSync(s.rec.filePath)
           /\ Set(p, DeliverEntry([s EXCEPT !.buf = ReadData(s.rec.filePath),
                                            !.isGif = s.rec.isGif, !.mime = s.rec.mime,
                                            !.path = s.rec.filePath],
                                  s.rec.isGif, FALSE))
           /\ NoFault
        \/ /\ ~existsSync(s.rec.filePath)
           /\ Set(p, Return(s, "sendfailed", s.rec.id))
           /\ NoFault
        \/ /\ CanFail /\ Fault
           /\ existsSync(s.rec.filePath)
           /\ Set(p, Return(s, "sendfailed", s.rec.id))
  /\ UNCHANGED <<config, scn, records, nextId, files, temps, timers, now, today, budget>>

-----------------------------------------------------------------------------
(* viewAlbum *)

StartList(p) ==
  /\ p \in scn.procs /\ AtRest(p) /\ budget >= 1
  /\ \E sess \in scn.sessions, page \in scn.pages :
       LET s0 == [Idle EXCEPT !.cmd = "list", !.sess = sess, !.idx = page]
       IN Set(p, IF ~isAlbumEnabledForGroup(sess.channelId)
                 THEN Return(s0, "disabled", 0)
                 ELSE [s0 EXCEPT !.pc = "list_page"])
  /\ budget' = budget - 1
  /\ UNCHANGED <<config, scn, records, nextId, files, temps, timers, now, today, faults>>

(* .orderBy('createdAt', 'desc').limit(pageSize).offset(offset) *)
Page(recs, page) ==
  LET offset == (page - 1) * pageSize
  IN SubSeq(recs, offset + 1,
            IF offset + pageSize < Len(recs) THEN offset + pageSize ELSE Len(recs))

ListPage(p) ==
  /\ st[p].pc = "list_page"
  /\ LET s == st[p]
         recs == Page(SortDesc(ChannelRecords(s.sess.channelId)), s.idx)
     IN Set(p, IF recs = <<>>
               THEN Return(s, IF s.idx = 1 THEN "empty" ELSE "nomore", 0)
               ELSE [s EXCEPT !.snap = recs, !.pc = "list_total"])
  /\ UNCHANGED <<config, scn, records, nextId, files, temps, timers, now, today,
                 budget, faults>>

(* The second select counts the channel's rows; the text is then composed *)
ListTotal(p) ==
  /\ st[p].pc = "list_total"
  /\ Set(p, [st[p] EXCEPT !.left = Cardinality(ChannelRecords(st[p].sess.channelId)),
                          !.pc = "list_send"])
  /\ UNCHANGED <<config, scn, records, nextId, files, temps, timers, now, today,
                 budget, faults>>

(* await session.send(result); a throw leaves viewAlbum *)
ListSend(p) ==
  /\ st[p].pc = "list_send"
  /\ LET s == st[p]
         sent == [s EXCEPT !.sends = Append(@, Payload("text", s.left, "album", NoTmp))]
     IN \/ /\ Set(p, IF config.albumShowImages
                     THEN [sent EXCEPT !.ev = s.snap, !.pc = "list_img"]
                     ELSE Return(sent, "listed", s.left))
           /\ NoFault
        \/ /\ CanFail /\ Fault
           /\ Set(p, Return(s, "error", 0))
  /\ UNCHANGED <<config, scn, records, nextId, files, temps, timers, now, today, budget>>

(* One record of the page: existsSync, readFile, send as image; a throw is
   caught and the record skipped *)
ListImage(p) ==
  /\ st[p].pc = "list_img"
  /\ LET s == st[p]
         r == Head(s.ev)
         next == [s EXCEPT !.ev = Tail(@)]
         after(t) == IF Len(s.ev) > 1 THEN t ELSE Return(t, "listed", s.left)
     IN \/ /\ existsSync(r.filePath)
           /\ Set(p, after([next EXCEPT !.sends =
                      Append(@, Payload("image", ReadData(r.filePath), r.mime, NoTmp))]))
           /\ NoFault
        \/ /\ ~existsSync(r.filePath)
           /\ Set(p, after(next))
           /\ NoFault
        \/ /\ CanFail /\ Fault
           /\ existsSync(r.filePath)
           /\ Set(p, after(next))
  /\ UNCHANGED <<config, scn, records, nextId, files, temps, timers, now, today, budget>>

-----------------------------------------------------------------------------
(* deleteEmoji *)

StartDelete(p) ==
  /\ p \in scn.procs /\ AtRest(p) /\ budget >= 1
  /\ \E sess \in scn.sessions, index \in scn.indexes :
       LET s0 == [Idle EXCEPT !.cmd = "delete", !.sess = sess, !.idx = index]
           s1 == [s0 EXCEPT !.level = checkUserPermission(sess)]
       IN Set(p, IF index = 0 THEN Return(s0, "noindex", 0)
                 ELSE IF ~isAlbumEnabledForGroup(sess.channelId)
                      THEN Return(s0, "disabled", 0)
                 ELSE IF ~hasDeletePermission(sess)
                      THEN Return(s1, "denied", config.deletePermissionLevel)
                 ELSE [s1 EXCEPT !.pc = "del_select"])
  /\ budget' = budget - 1
  /\ UNCHANGED <<config, scn, records, nextId, files, temps, timers, now, today, faults>>

DeleteSelect(p) ==
  /\ st[p].pc = "del_select"
  /\ LET s == st[p]
         recs == SortDesc(ChannelRecords(s.sess.channelId))
     IN Set(p, IF s.idx < 1 \/ s.idx > Len(recs) THEN Return(s, "badindex", Len(recs))
               ELSE [s EXCEPT !.rec = recs[s.idx], !.pc = "del_unlink"])
  /\ UNCHANGED <<config, scn, records, nextId, files, temps, timers, now, today,
                 budget, faults>>

(* if (existsSync(record.filePath)) unlinkSync(record.filePath) *)
DeleteUnlink(p) ==
  /\ st[p].pc = "del_unlink"
  /\ \/ /\ files' = Unlinked(st[p].rec.filePath)
        /\ Set(p, [st[p] EXCEPT !.pc = "del_remove"])
        /\ NoFault
     \/ /\ CanFail /\ Fault
        /\ existsSync(st[p].rec.filePath)
        /\ Set(p, Return(st[p], "delfailed", st[p].rec.id))
        /\ UNCHANGED files
  /\ UNCHANGED <<config, scn, records, nextId, temps, timers, now, today, budget>>

(* await ctx.database.remove('sticker_archive', { id: record.id }) *)
DeleteRemove(p) ==
  /\ st[p].pc = "del_remove"
  /\ \/ /\ records' = {r \in records : r.id # st[p].rec.id}
        /\ Set(p, Return(st[p], "deleted", st[p].rec.id))
        /\ NoFault
     \/ /\ CanFail /\ Fault
        /\ Set(p, Return(st[p], "delfailed", st[p].rec.id))
        /\ UNCHANGED records
  /\ UNCHANGED <<config, scn, nextId, files, temps, timers, now, today, budget>>

-----------------------------------------------------------------------------
(* clearAlbum *)

RECURSIVE TrimStart(_)
TrimStart(t) == IF t # <<>> /\ Head(t) = " " THEN TrimStart(Tail(t)) ELSE t

RECURSIVE TrimEnd(_)
TrimEnd(t) ==
  IF t # <<>> /\ t[Len(t)] = " " THEN TrimEnd(SubSeq(t, 1, Len(t) - 1)) ELSE t

(* String.prototype.trim *)
Trim(t) == TrimEnd(TrimStart(t))

(* session.prompt(30000): the next message's text, or undefined after 30 s *)
Replies ==
  {[got |-> TRUE, text |-> t] :
     t \in {<<"Y">>, <<" ", "Y", " ">>, <<"Y", "Y">>, <<"N">>, <<>>}}
  \cup {[got |-> FALSE, text |-> <<>>]}

(* The test with the optional chaining's undefined taken for the confirm word *)
IsConfirmedOrTimeout(reply) == ~reply.got \/ Trim(reply.text) = Confirm

(* (confirm as string)?.trim() !== '确认' is false *)
IsConfirmed(reply) == reply.got /\ Trim(reply.text) = Confirm

StartClear(p) ==
  /\ p \in scn.procs /\ AtRest(p) /\ budget >= 1
  /\ \E sess \in scn.sessions :
       LET s0 == [Idle EXCEPT !.cmd = "clear", !.sess = sess]
           s1 == [s0 EXCEPT !.level = checkUserPermission(sess)]
       IN Set(p, IF ~isAlbumEnabledForGroup(sess.channelId)
                 THEN Return(s0, "disabled", 0)
                 ELSE IF ~hasDeletePermission(sess)
                      THEN Return(s1, "denied", config.deletePermissionLevel)
                 ELSE [s1 EXCEPT !.pc = "clr_select"])
  /\ budget' = budget - 1
  /\ UNCHANGED <<config, scn, records, nextId, files, temps, timers, now, today, faults>>

(* The select of the channel's records; an empty album returns at once *)
ClearSelect(p) ==
  /\ st[p].pc = "clr_select"
  /\ LET s == st[p]
         recs == ChannelRecords(s.sess.channelId)
     IN Set(p, IF recs = {} THEN Return(s, "alreadyempty", 0)
               ELSE [s EXCEPT !.all = recs, !.pc = "clr_prompt"])
  /\ UNCHANGED <<config, scn, records, nextId, files, temps, timers, now, today,
                 budget, faults>>

(* await session.send(the confirmation prompt); a throw leaves clearAlbum *)
ClearPrompt(p) ==
  /\ st[p].pc = "clr_prompt"
  /\ \/ /\ Set(p, [st[p] EXCEPT !.sends = Append(@, Payload("text", 0, "confirm?", NoTmp)),
                                !.pc = "clr_wait"])
        /\ NoFault
     \/ /\ CanFail /\ Fault
        /\ Set(p, Return(st[p], "error", 0))
  /\ UNCHANGED <<config, scn, records, nextId, files, temps, timers, now, today, budget>>

(* The reply (or the timeout) resolves the prompt; on the confirm word the
   loop unlinks every snapshot record's blob; a throwing unlinkSync leaves
   the loop with the blobs before it already deleted *)
ClearReply(p) ==
  /\ st[p].pc = "clr_wait"
  /\ LET s == st[p]
         paths == {r.filePath : r \in s.all}
     IN \E reply \in scn.replies :
          LET t == [s EXCEPT !.reply = reply]
          IN IF ~IsConfirmed(reply)
             THEN /\ Set(p, Return(t, "cancelled", 0))
                  /\ UNCHANGED <<files, faults>>
             ELSE \/ /\ files' = {f \in files : f.path \notin paths}
                     /\ Set(p, [t EXCEPT !.pc = "clr_remove"])
                     /\ NoFault
                  \/ /\ CanFail /\ Fault
                     /\ \E bad \in {q \in paths : existsSync(q)} :
                          \E gone \in SUBSET (paths \ {bad}) :
                             files' = {f \in files : f.path \notin gone}
                     /\ Set(p, Return(t, "clrfailed", 0))
  /\ UNCHANGED <<config, scn, records, nextId, temps, timers, now, today, budget>>

(* await ctx.database.remove('sticker_archive', { channelId }) *)
ClearRemove(p) ==
  /\ st[p].pc = "clr_remove"
  /\ \/ /\ records' = {r \in records : r.channelId # st[p].sess.channelId}
        /\ Set(p, Return(st[p], "cleared", Cardinality(st[p].all)))
        /\ NoFault
     \/ /\ CanFail /\ Fault
        /\ Set(p, Return(st[p], "clrfailed", 0))
        /\ UNCHANGED records
  /\ UNCHANGED <<config, scn, nextId, files, temps, timers, now, today, budget>>

-----------------------------------------------------------------------------
(* The environment *)

(* Midnight passes.  Only saveFile reads the date, so the change is taken
   just before a saveFile: every other action commutes with it *)
NewDay ==
  /\ today < MaxDay
  /\ \E p \in scn.procs : st[p].pc = "save"
  /\ today' = today + 1
  /\ UNCHANGED <<config, scn, records, nextId, files, temps, timers, now, st,
                 budget, faults>>

-----------------------------------------------------------------------------
(* Initial states: an album that fault-free ingests of contents 1..n on day 0
   have filled *)

Prepop(ch, n) == {Row(i, ch, i, BlobPath(0, i), i) : i \in 1..n}

Session(ch, roles) ==
  [platform |-> "onebot", channelId |-> ch, isDirect |-> FALSE, hasAuthor |-> TRUE,
   roles |-> roles]

InitStore(n) ==
  /\ records = Prepop("A", n)
  /\ files = {[path |-> r.filePath, data |-> r.md5] : r \in Prepop("A", n)}
  /\ nextId = n + 1
  /\ now = n + 1
  /\ today = 0
  /\ temps = {}
  /\ timers = {}
  /\ faults = 0
  /\ st = [p \in Procs |-> Idle]

(* The concurrent scenario: two sessions in the full channel A; the two new
   contents sent and the records resent are static images, delivered embedded *)
Init ==
  /\ config = DefaultConfig
  /\ scn = [procs |-> Procs,
            sessions |-> {Session("A", {"admin"})},
            contents |-> {MinAlbumMaxSize + 1, MinAlbumMaxSize + 3},
            inOrder |-> FALSE, quotes |-> 1..MaxBatch, indexes |-> {1, 2},
            pages |-> {},
            replies |-> {r \in Replies : r.text \in {<<>>, Confirm}},
            maxFaults |-> MaxFaults]
  /\ budget = MaxCmds
  /\ InitStore(MinAlbumMaxSize)

Step(p) ==
  \/ StartIngest(p) \/ Item(p) \/ Fetch(p) \/ ExistsCheck(p) \/ CleanSelect(p)
  \/ EvictUnlink(p) \/ EvictRemove(p) \/ SaveFile(p) \/ SendImage(p) \/ Create(p)
  \/ StartSend(p) \/ SendSelect(p) \/ SendRead(p)
  \/ StartDelete(p) \/ DeleteSelect(p) \/ DeleteUnlink(p) \/ DeleteRemove(p)
  \/ StartClear(p) \/ ClearSelect(p) \/ ClearPrompt(p) \/ ClearReply(p) \/ ClearRemove(p)

Next == (\E p \in Procs : Step(p)) \/ NewDay

Spec == Init /\ [][Next]_vars

(* The sequential scenario: one session ingests into the empty channel A,
   every kind delivered embedded; the k-th new content is content k *)
InitSeq ==
  /\ config = [DefaultConfig EXCEPT !.gifMode = "buffer"]
  /\ scn = [procs |-> {"p1"}, sessions |-> {Session("A", {})},
            contents |-> 1..(MinAlbumMaxSize + 2), inOrder |-> TRUE,
            quotes |-> (-1)..MaxBatch, indexes |-> {}, pages |-> {}, replies |-> {},
            maxFaults |-> MaxFaults + 1]
  /\ budget = MaxSeqItems
  /\ InitStore(0)

SeqStep(p) ==
  \/ StartIngest(p) \/ Item(p) \/ Fetch(p) \/ ExistsCheck(p) \/ CleanSelect(p)
  \/ EvictUnlink(p) \/ EvictRemove(p) \/ SaveFile(p) \/ SendImage(p) \/ Create(p)

NextSeq == \E p \in Procs : SeqStep(p)

SpecSeq == InitSeq /\ [][NextSeq]_vars

(* The permission scenario: one session of any role set runs one command
   under any configured threshold, on the empty album or on one of two records *)
Roles == {"owner", "admin", "trusted", "member"}

AllSessions ==
  {[platform |-> "onebot", channelId |-> "A", isDirect |-> d, hasAuthor |-> a,
    roles |-> rs] : d \in BOOLEAN, a \in BOOLEAN, rs \in SUBSET Roles}

InitGate ==
  /\ \E lvl \in 1..MaxDeleteLevel : config = [DefaultConfig EXCEPT !.deletePermissionLevel = lvl]
  /\ scn = [procs |-> {"p1"}, sessions |-> AllSessions,
            contents |-> {1, MinAlbumMaxSize + 1}, inOrder |-> FALSE,
            quotes |-> (-1)..MaxBatch, indexes |-> {-1, 0, 1, 3},
            pages |-> {1, 2}, replies |-> Replies, maxFaults |-> MaxFaults]
  /\ budget = 1
  /\ \E n \in {0, 2} : InitStore(n)

GateStep(p) ==
  \/ StartIngest(p) \/ Item(p) \/ Fetch(p) \/ ExistsCheck(p) \/ CleanSelect(p)
  \/ SaveFile(p) \/ TmpWrite(p) \/ SendFile(p) \/ SendImage(p) \/ Fallback(p)
  \/ Create(p)
  \/ StartSend(p) \/ SendSelect(p) \/ SendRead(p)
  \/ StartList(p) \/ ListPage(p) \/ ListTotal(p) \/ ListSend(p) \/ ListImage(p)
  \/ StartDelete(p) \/ DeleteSelect(p) \/ DeleteUnlink(p) \/ DeleteRemove(p)
  \/ StartClear(p) \/ ClearSelect(p) \/ ClearPrompt(p) \/ ClearReply(p) \/ ClearRemove(p)

NextGate == (\E p \in Procs : GateStep(p)) \/ CleanupTemp

SpecGate == InitGate /\ [][NextGate]_vars

(* The delivery scenario: one session converts, ingests and resends gifs and
   static images under every combination of the three transfer settings *)
Modes == {"buffer", "file"}

InitDeliver ==
  /\ \E g \in Modes, i \in Modes, f \in Modes :
       config = [DefaultConfig EXCEPT !.gifMode = g, !.staticImageMode = i,
                                      !.fileTransferMode = f]
  /\ scn = [procs |-> {"p1"}, sessions |-> {Session("A", {})},
            contents |-> {MinAlbumMaxSize + 1, MinAlbumMaxSize + 2}, inOrder |-> FALSE,
            quotes |-> 1..MaxBatch, indexes |-> {1, 2}, pages |-> {}, replies |-> {},
            maxFaults |-> MaxFaults + 1]
  /\ budget = MaxCmds
  /\ InitStore(2)

DeliverStep(p) ==
  \/ StartIngest(p) \/ StartConvert(p) \/ Item(p) \/ Fetch(p) \/ ExistsCheck(p)
  \/ CleanSelect(p) \/ SaveFile(p) \/ TmpWrite(p) \/ SendFile(p) \/ SendImage(p)
  \/ Fallback(p) \/ Create(p)
  \/ StartSend(p) \/ SendSelect(p) \/ SendRead(p)

NextDeliver == (\E p \in Procs : DeliverStep(p)) \/ CleanupTemp

SpecDeliver == InitDeliver /\ [][NextDeliver]_vars

(* The delivery scenario with every awaited operation and timer eventually
   completing: the event loop runs each pending continuation *)
SpecDeliverFair == InitDeliver /\ [][NextDeliver]_vars /\ WF_vars(NextDeliver)

(* The two-channel scenario: channel A is full with contents 1..M of day 0,
   channel B is empty; one session of each channel ingests content 1 or a
   new content, deletes by index, or clears.  saveFile names the blob by
   date and digest only, in the one storage directory of the plugin *)
InitIso ==
  /\ config = DefaultConfig
  /\ scn = [procs |-> {"p1"},
            sessions |-> {Session(ch, {"admin"}) : ch \in Channels},
            contents |-> {1, MinAlbumMaxSize + 1}, inOrder |-> FALSE,
            quotes |-> {1}, indexes |-> {1, MinAlbumMaxSize}, pages |-> {},
            replies |-> {r \in Replies : r.text \in {<<>>, Confirm}},
            maxFaults |-> MaxFaults]
  /\ budget = MaxCmds
  /\ InitStore(MinAlbumMaxSize)

IsoStep(p) ==
  \/ StartIngest(p) \/ Item(p) \/ Fetch(p) \/ ExistsCheck(p) \/ CleanSelect(p)
  \/ EvictUnlink(p) \/ EvictRemove(p) \/ SaveFile(p) \/ SendImage(p) \/ Create(p)
  \/ StartDelete(p) \/ DeleteSelect(p) \/ DeleteUnlink(p) \/ DeleteRemove(p)
  \/ StartClear(p) \/ ClearSelect(p) \/ ClearPrompt(p) \/ ClearReply(p) \/ ClearRemove(p)

NextIso == (\E p \in Procs : IsoStep(p)) \/ NewDay

SpecIso == InitIso /\ [][NextIso]_vars

(* The album-toggle scenario: enableAlbum and albumEnabledGroups take every
   value over the two channels; channel A holds two records from a time it
   was enabled; sessions of A and of B, and one of another platform, run
   every command *)
InitToggle ==
  /\ \E e \in BOOLEAN, g \in SUBSET Channels :
       config = [DefaultConfig EXCEPT !.enableAlbum = e, !.albumEnabledGroups = g]
  /\ scn = [procs |-> {"p1"},
            sessions |-> {Session(ch, {"admin"}) : ch \in Channels}
                         \cup {[Session("A", {"admin"}) EXCEPT !.platform = "other"]},
            contents |-> {MinAlbumMaxSize + 1, MinAlbumMaxSize + 2}, inOrder |-> FALSE,
            quotes |-> (-1)..MaxBatch, indexes |-> {0, 1}, pages |-> {1},
            replies |-> {r \in Replies : r.text \in {<<>>, Confirm}},
            maxFaults |-> MaxFaults]
  /\ budget = MaxCmds
  /\ InitStore(2)

ToggleStep(p) ==
  \/ StartConvert(p) \/ GateStep(p)

NextToggle == (\E p \in Procs : ToggleStep(p)) \/ CleanupTemp

SpecToggle == InitToggle /\ [][NextToggle]_vars

-----------------------------------------------------------------------------
(* Claims *)

(* C1: in every reachable state there is at most one archive record per
   (channelId, md5) pair, also when two convertEmoji runs for the same
   content interleave between the existence check and the row insert. *)
C1_OneRecordPerChannelHash ==
  \A r1 \in records, r2 \in records :
    (r1.channelId = r2.channelId /\ r1.md5 = r2.md5) => r1.id = r2.id

(* C2: when the item's (channelId, md5) already has a record, the existence
   check is a dedup hit: it pushes the informational line carrying a
   pre-existing record's id, counts no success and no failure, delivers
   nothing, and leaves rows (their createdAt included), blobs and temp files
   as they are; the item ends there, so no capacity check runs even when the
   channel is full. *)
C2_DedupHitLeavesStore ==
  [][\A p \in Procs :
       (/\ st[p].pc = "exists"
        /\ st'[p] # st[p]
        /\ \E r \in records : r.channelId = st[p].sess.channelId /\ r.md5 = Md5(st[p].buf))
       => /\ records' = records
          /\ files' = files
          /\ temps' = temps
          /\ nextId' = nextId
          /\ st'[p].sends = st[p].sends
          /\ st'[p].ok = st[p].ok
          /\ st'[p].pc \in {"item", "done"}
          /\ LET last == st'[p].lines[Len(st'[p].lines)]
             IN /\ last.kind = "dup"
                /\ \E r \in records : /\ r.id = last.n
                                      /\ r.channelId = st[p].sess.channelId
                                      /\ r.md5 = Md5(st[p].buf)
          /\ Cardinality({i \in 1..Len(st'[p].lines) : st'[p].lines[i].kind = "fail"})
               = Cardinality({i \in 1..Len(st[p].lines) : st[p].lines[i].kind = "fail"})
    ]_vars

(* A dedup hit was reported in a channel that is at capacity *)
C2_Witness ==
  \E p \in Procs :
    /\ st[p].cmd = "ingest"
    /\ st[p].lines # <<>>
    /\ st[p].lines[Len(st[p].lines)].kind = "dup"
    /\ Cardinality(ChannelRecords(st[p].sess.channelId)) >= config.albumMaxSize

(* C3: with M = albumMaxSize, when contents are ingested successfully one
   after another into one channel, between two items the channel holds the
   min(n, M) most recently created of the n records created so far, and the
   blobs on disk are exactly the blobs of those records: after N > M ingests
   exactly M records remain and every evicted record's blob is deleted. *)
C3_SequentialCapacity ==
  (faults = 0 /\ \A p \in Procs : st[p].pc \in {"idle", "done", "item", "fetch", "exists", "clean"})
  => LET n == nextId - 1
         M == config.albumMaxSize
         kept == ChannelRecords("A")
     IN /\ Cardinality(kept) = IF n > M THEN M ELSE n
        /\ {r.id : r \in kept} = {i \in 1..n : i > n - M}
        /\ \A r \in kept, q \in kept : r.id < q.id => r.createdAt < q.createdAt
        /\ {f.path : f \in files} = {r.filePath : r \in kept}
        /\ \A r \in kept : \E f \in files : f.path = r.filePath /\ f.data = r.md5

(* Six distinct contents c1..c6 were ingested in order with M = 5: the
   channel holds c2..c6 and c1's blob is gone *)
C3_Witness ==
  /\ faults = 0
  /\ st["p1"].pc = "done"
  /\ nextId = config.albumMaxSize + 2
  /\ {r.md5 : r \in ChannelRecords("A")} = 2..(config.albumMaxSize + 1)
  /\ ~existsSync(BlobPath(0, 1))

(* C4: when checkAndCleanAlbum has run to its end without interference and
   without a failure on a channel that held n records, then for
   n >= albumMaxSize it has removed exactly the n - albumMaxSize + 1 records
   with the oldest createdAt, and their blobs, and no other record, leaving
   albumMaxSize - 1; for n < albumMaxSize it has removed nothing.  Each
   record's blob is deleted before its row. *)
C4_GovernorFreesOneSlot ==
  \A p \in Procs :
    LET s == st[p]
        M == config.albumMaxSize
        before == SeqToSet(s.snap)
        n == Cardinality(before)
        kept == ChannelRecords(s.sess.channelId)
        removed == before \ kept
    IN /\ (s.pc = "save" /\ s.logged = 0) =>
            /\ kept \subseteq before
            /\ IF n >= M
               THEN Cardinality(removed) = n - M + 1 /\ Cardinality(kept) = M - 1
               ELSE removed = {}
            /\ \A r \in removed, k \in kept : r.createdAt < k.createdAt
            /\ \A r \in removed : ~existsSync(r.filePath)
       /\ s.pc = "ev_unlink" => Head(s.ev) \in records
       /\ s.pc = "ev_remove" => Head(s.ev) \in records /\ ~existsSync(Head(s.ev).filePath)

(* The governor ran without a failure on a channel that held
   albumMaxSize + 1 records and left albumMaxSize - 1 *)
C4_Witness ==
  \E p \in Procs :
    /\ st[p].pc = "save"
    /\ st[p].logged = 0
    /\ Len(st[p].snap) = config.albumMaxSize + 1
    /\ Cardinality(ChannelRecords(st[p].sess.channelId)) = config.albumMaxSize - 1

(* C5: a delete or clear of an actor whose level is below
   deletePermissionLevel ends at once with the permission-denied outcome:
   no record and no blob is removed and nothing is sent (no confirmation
   prompt); an actor at or above the threshold is not denied; list, send and
   ingest never end with the permission-denied outcome. *)
C5_DeleteGate ==
  [][\A p \in Procs :
       st'[p] # st[p] =>
         LET s == st'[p]
             lvl == checkUserPermission(s.sess)
         IN /\ (s.cmd \in {"delete", "clear"} /\ s.ret.kind \notin {"noindex", "disabled"}) =>
                 IF lvl < config.deletePermissionLevel
                 THEN /\ s.pc = "done"
                      /\ s.ret.kind = "denied"
                      /\ s.sends = <<>>
                      /\ records' = records
                      /\ files' = files
                 ELSE s.ret.kind # "denied"
            /\ s.cmd \in {"list", "send", "ingest"} => s.ret.kind # "denied"
    ]_vars

(* A clear of a non-empty album was denied to an actor below the threshold *)
C5_Witness ==
  \E p \in Procs :
    /\ st[p].cmd = "clear"
    /\ st[p].ret.kind = "denied"
    /\ st[p].level < config.deletePermissionLevel
    /\ st[p].sends = <<>>
    /\ ChannelRecords(st[p].sess.channelId) # {}

(* C6: the level computed for a delete or clear depends only on the role
   flags, the direct flag and the presence of the author: 1 in a direct
   context or without author, else 4 for owner, else 3 for admin, else 2 for
   trusted, else 1; it is never 5, so under threshold 5 every delete and
   clear is denied. *)
C6_PermissionLevel ==
  \A p \in Procs :
    LET s == st[p]
        roles == s.sess.roles
        plain == s.sess.isDirect \/ ~s.sess.hasAuthor
    IN (s.cmd \in {"delete", "clear"} /\ s.ret.kind \notin {"noindex", "disabled"}) =>
         /\ plain => s.level = 1
         /\ (~plain /\ "owner" \in roles) => s.level = 4
         /\ (~plain /\ "owner" \notin roles /\ "admin" \in roles) => s.level = 3
         /\ (~plain /\ {"owner", "admin"} \cap roles = {} /\ "trusted" \in roles) => s.level = 2
         /\ (~plain /\ {"owner", "admin", "trusted"} \cap roles = {}) => s.level = 1
         /\ s.level \in 1..4
         /\ config.deletePermissionLevel = MaxDeleteLevel =>
              s.pc = "done" /\ s.ret.kind = "denied"

(* An owner who is also admin, in a group context, resolved to level 4 and
   was denied a clear under threshold 5 *)
C6_Witness ==
  \E p \in Procs :
    /\ st[p].cmd = "clear"
    /\ {"owner", "admin"} \subseteq st[p].sess.roles
    /\ ~st[p].sess.isDirect /\ st[p].sess.hasAuthor
    /\ st[p].level = 4
    /\ config.deletePermissionLevel = MaxDeleteLevel
    /\ st[p].ret.kind = "denied"

(* C7: a step of clearAlbum removes a record or a blob only when the reply
   to the prompt arrived and is the confirm word (surrounding blanks
   trimmed); on any other reply, and on the timeout, the operation ends as
   cancelled with every record and blob in place. *)
C7_ClearOnlyOnConfirmed ==
  [][\A p \in Procs :
       (st[p].cmd = "clear" /\ st'[p] # st[p]) =>
         LET reply == st'[p].reply
             confirmed == reply.got /\ Trim(reply.text) = Confirm
         IN /\ (st[p].pc = "clr_wait" /\ ~confirmed) =>
                 /\ st'[p].pc = "done"
                 /\ st'[p].ret.kind = "cancelled"
                 /\ records' = records
                 /\ files' = files
            /\ (records' # records \/ files' # files) => confirmed
    ]_vars

(* A clear of a non-empty album timed out and ended as cancelled *)
C7_Witness ==
  \E p \in Procs :
    /\ st[p].cmd = "clear"
    /\ st[p].ret.kind = "cancelled"
    /\ ~st[p].reply.got
    /\ st[p].all # {}
    /\ ChannelRecords(st[p].sess.channelId) = st[p].all

(* C8: the step on which a confirmed clear reports success leaves no record
   in the channel and no blob of any record it removed, also when ingests
   into the channel completed during the wait for the confirmation. *)
C8_ClearedLeavesNothing ==
  [][\A p \in Procs :
       (st[p].pc = "clr_remove" /\ st'[p].ret.kind = "cleared") =>
         /\ {r \in records' : r.channelId = st[p].sess.channelId} = {}
         /\ \A r \in records \ records' : ~\E f \in files' : f.path = r.filePath
    ]_vars

(* C9: the step on which a delete by index reports success removes exactly
   one record, the selected one, so that the channel's count drops by
   exactly 1, and that record's blob is not on disk. *)
C9_DeleteRemovesExactlyOne ==
  [][\A p \in Procs :
       (st[p].pc = "del_remove" /\ st'[p].ret.kind = "deleted") =>
         /\ records \ records' = {st[p].rec}
         /\ records' \subseteq records
         /\ ~\E f \in files' : f.path = st[p].rec.filePath
    ]_vars

(* C10: the index of send and delete is resolved one-based over the channel's
   records ordered newest first: outside [1, total] the command ends with the
   out-of-range outcome carrying total, nothing sent and the store
   unchanged; inside, exactly the record with index - 1 newer records is
   selected.  A missing index is answered with nothing sent and the store
   unchanged. *)
C10_IndexResolution ==
  [][\A p \in Procs :
       st'[p] # st[p] =>
         LET s == st[p]
             t == st'[p]
             recs == ChannelRecords(s.sess.channelId)
             total == Cardinality(recs)
         IN /\ s.pc \in {"send_select", "del_select"} =>
                 /\ records' = records
                 /\ files' = files
                 /\ IF s.idx < 1 \/ s.idx > total
                    THEN /\ t.pc = "done"
                         /\ t.ret = Line("badindex", total)
                         /\ t.sends = <<>>
                         /\ t.rec = NoRec
                    ELSE /\ t.rec \in recs
                         /\ Cardinality({r \in recs : r.createdAt > t.rec.createdAt}) = s.idx - 1
                         /\ t.ret.kind # "badindex"
            /\ t.ret.kind = "noindex" =>
                 records' = records /\ files' = files /\ t.sends = <<>>
    ]_vars

(* An index was refused on an empty channel *)
C10_Witness ==
  \E p \in Procs :
    /\ st[p].cmd \in {"send", "delete"}
    /\ st[p].idx = 1
    /\ st[p].ret = Line("badindex", 0)
    /\ ChannelRecords(st[p].sess.channelId) = {}

(* C11: when the file delivery of an item fails (the temp file write or the
   file send throws), nothing is reported yet and one embedded delivery of
   the same bytes and mime type follows; when that one succeeds the item is
   reported with the degraded line (the fallback line of its kind, never the
   file line or the failure line): sendEmoji returns it, convertEmojiOnly
   counts the item at once, and convertEmoji goes on to the row insert, whose
   success counts the item without a failure line. *)
C11_FileFailureDegrades ==
  [][\A p \in Procs :
       st'[p] # st[p] =>
         LET s == st[p]
             t == st'[p]
             degraded == IF s.isGif THEN "gif_fallback" ELSE "img"
             fails(l) == Cardinality({i \in 1..Len(l) : l[i].kind = "fail"})
         IN /\ (s.pc \in {"tmpwrite", "sendfile"} /\ faults' # faults) =>
                 /\ t.pc = "fallback"
                 /\ t.lines = s.lines /\ t.sends = s.sends /\ t.ok = s.ok
                 /\ t.buf = s.buf /\ t.mime = s.mime
            /\ (s.pc = "fallback" /\ faults' = faults) =>
                 /\ t.sends = Append(s.sends, Payload("image", s.buf, s.mime, NoTmp))
                 /\ degraded \notin {"gif_file", "img_file", "fail"}
                 /\ IF s.cmd = "send"
                    THEN t.pc = "done" /\ t.ret.kind = degraded
                    ELSE /\ \E i \in 1..Len(t.lines) : t.lines[i] = Line(degraded, s.buf)
                         /\ fails(t.lines) = fails(s.lines)
                         /\ IF s.cmd = "convert"
                            THEN t.ok = s.ok + 1
                            ELSE t.ok = s.ok /\ t.pc = "create"
            /\ (s.pc = "create" /\ faults' = faults) =>
                 t.ok = s.ok + 1 /\ fails(t.lines) = fails(s.lines)
    ]_vars

(* An ingested gif whose file delivery failed was delivered embedded, is
   reported with the degraded line and counted, and its row is stored *)
C11_Witness ==
  \E p \in Procs :
    /\ st[p].cmd = "ingest" /\ st[p].pc = "done"
    /\ st[p].ok = 1 /\ faults = 1
    /\ \E i \in 1..Len(st[p].lines) :
         /\ st[p].lines[i].kind = "gif_fallback"
         /\ \E r \in records : r.md5 = Md5(st[p].lines[i].n)
    /\ \A i \in 1..Len(st[p].lines) : st[p].lines[i].kind # "fail"

(* C12: in a batch of convertEmoji or convertEmojiOnly every element that
   has been processed has exactly one terminal outcome (counted success,
   failure line, dedup line or invalid-link line), a failure of one element
   leaves the later elements to be processed, the batch returns only when no
   element is left, and every batch that was started eventually returns. *)
C12_BatchRunsToEnd ==
  /\ [](\A p \in Procs :
          LET s == st[p]
              count(k) == Cardinality({i \in 1..Len(s.lines) : s.lines[i].kind = k})
              outcomes == s.ok + count("fail") + count("dup") + count("warn")
          IN (s.cmd \in {"ingest", "convert"} /\ s.n > 0) =>
               /\ s.pc = "done" => s.left = 0 /\ outcomes = s.n
               /\ s.pc = "item" => s.left > 0 /\ outcomes = s.n - s.left
               /\ s.pc \notin {"done", "item"} => outcomes = s.n - s.left - 1)
  /\ \A p \in Procs :
       (st[p].cmd \in {"ingest", "convert"} /\ st[p].pc # "done")
         ~> (st[p].cmd \in {"ingest", "convert"} /\ st[p].pc = "done")

(* A batch of two returned after its first element failed and its second
   was delivered *)
C12_Witness ==
  \E p \in Procs :
    /\ st[p].cmd \in {"ingest", "convert"} /\ st[p].pc = "done" /\ st[p].n = 2
    /\ st[p].ok = 1
    /\ \E i \in 1..Len(st[p].lines), j \in 1..Len(st[p].lines) :
         /\ i < j
         /\ st[p].lines[i].kind = "fail"
         /\ st[p].lines[j].kind \in {"gif_file", "img_file", "gif_fallback", "img", "gif_image"}

(* C13: a batch of convertEmoji or convertEmojiOnly that processed at least
   one element returns the summary line with the success count, for every
   count including zero, followed by exactly one line per element. *)
C13_SummaryAndOneLinePerItem ==
  \A p \in Procs :
    LET s == st[p]
    IN (s.cmd \in {"ingest", "convert"} /\ s.pc = "done" /\ s.n > 0) =>
         /\ Len(s.lines) = s.n + 1
         /\ s.lines[1] = Line("summary", s.ok)
         /\ \A i \in 2..Len(s.lines) : s.lines[i].kind # "summary"

(* C14: whenever no ingest into the channel is in flight, nothing has
   failed and the channel's records have pairwise distinct contents, the
   channel holds at most albumMaxSize records, for every interleaving of
   concurrent ingests. *)
C14_CapacityAtRest ==
  (/\ \A p \in Procs : st[p].cmd = "ingest" => st[p].pc = "done"
   /\ faults = 0
   /\ \A r \in records, q \in records : r.md5 = q.md5 => r.id = q.id)
  => Cardinality(ChannelRecords("A")) <= config.albumMaxSize

(* C15: whenever convertEmoji is about to attempt a delivery of an item
   (file or embedded, first attempt or fallback), the item's blob and its
   archive record are both persisted. *)
C15_StoredBeforeDelivery ==
  \A p \in Procs :
    LET s == st[p]
    IN (s.cmd = "ingest" /\ s.pc \in {"tmpwrite", "sendfile", "sendimg", "fallback"}) =>
         /\ existsSync(s.path)
         /\ \E r \in records :
              r.channelId = s.sess.channelId /\ r.md5 = Md5(s.buf) /\ r.filePath = s.path

(* C16: in convertEmoji the blob write completes before the row insert:
   saveFile leaves the whole content at the path it returns and inserts
   nothing; a row is inserted only by the insert step of an item whose blob
   is on disk with the item's content, and every record's blob holds the
   content of the record's digest; an item that fails after its blob write
   leaves the blob and inserts no row. *)
C16_BlobBeforeRow ==
  /\ [](\A r \in records :
          \E f \in files : f.path = r.filePath /\ Md5(f.data) = r.md5)
  /\ [][\A p \in Procs :
          st'[p] # st[p] =>
            LET s == st[p]
                t == st'[p]
            IN /\ (s.pc = "save" /\ faults' = faults) =>
                    /\ t.path = BlobPath(today, s.buf)
                    /\ [path |-> t.path, data |-> s.buf] \in files'
                    /\ records' = records
               /\ records' # records =>
                    /\ s.cmd = "ingest" /\ s.pc = "create" /\ s.path # NoPath
                    /\ [path |-> s.path, data |-> s.buf] \in files
                    /\ \E r \in records' \ records :
                         /\ records' = records \cup {r}
                         /\ r.filePath = s.path /\ r.md5 = Md5(s.buf)
               /\ (s.cmd = "ingest" /\ s.path # NoPath /\ faults' # faults) =>
                    records' = records /\ files' = files
     ]_vars

(* An ingest failed between its blob write and its row insert: the blob is
   on disk and no record refers to it *)
C16_Witness ==
  \E p \in Procs :
    /\ st[p].cmd = "ingest" /\ st[p].pc = "done"
    /\ \E i \in 1..Len(st[p].lines) :
         /\ st[p].lines[i].kind = "fail"
         /\ \E f \in files :
              /\ f.data = st[p].lines[i].n
              /\ \A r \in records : r.filePath # f.path

(* C17: a failure while evicting one record (its blob delete or its row
   removal throws) is logged and the record skipped: no failure line is
   reported, the governor goes on to the next candidate if one remains and
   otherwise returns to the ingest, whose blob write comes next; the item's
   row insert then counts it as a success like any other item's. *)
C17_EvictionFailureSkipped ==
  [][\A p \in Procs :
       st'[p] # st[p] =>
         LET s == st[p]
             t == st'[p]
         IN /\ (s.pc \in {"ev_unlink", "ev_remove"} /\ faults' # faults) =>
                 /\ t.logged = s.logged + 1
                 /\ t.lines = s.lines /\ t.ok = s.ok /\ t.buf = s.buf
                 /\ t.ev = Tail(s.ev)
                 /\ t.pc = IF Len(s.ev) > 1 THEN "ev_unlink" ELSE "save"
            /\ (s.logged > 0 /\ s.pc = "save" /\ faults' = faults) =>
                 /\ [path |-> t.path, data |-> s.buf] \in files'
                 /\ t.pc \in {"tmpwrite", "sendfile", "sendimg"}
            /\ (s.logged > 0 /\ s.pc = "create" /\ faults' = faults) =>
                 /\ t.ok = s.ok + 1
                 /\ \E r \in records' \ records : r.md5 = Md5(s.buf)
                 /\ Cardinality({i \in 1..Len(t.lines) : t.lines[i].kind = "fail"})
                      = Cardinality({i \in 1..Len(s.lines) : s.lines[i].kind = "fail"})
    ]_vars

(* With two eviction candidates the first one's eviction failed and the
   governor is evicting the second *)
C17_Witness ==
  \E p \in Procs :
    /\ st[p].pc = "ev_remove"
    /\ st[p].logged = 1
    /\ Len(st[p].snap) = config.albumMaxSize + 1
    /\ Len(st[p].ev) = 1

(* C18: when an embedded delivery throws, as the configured mode or as the
   fallback after a failed file delivery, the item ends there: nothing more
   is sent for it, convertEmoji and convertEmojiOnly report the failure line
   for it, do not count it and insert no row, and sendEmoji returns the
   failure outcome. *)
C18_EmbeddedFailureFinal ==
  [][\A p \in Procs :
       (st'[p] # st[p] /\ st[p].pc \in {"sendimg", "fallback"} /\ faults' # faults) =>
         LET s == st[p]
             t == st'[p]
             fails(l) == Cardinality({i \in 1..Len(l) : l[i].kind = "fail"})
         IN /\ t.sends = s.sends
            /\ records' = records
            /\ IF s.cmd = "send"
               THEN t.pc = "done" /\ t.ret.kind = "sendfailed"
               ELSE /\ t.pc \in {"item", "done"}
                    /\ t.left = s.left
                    /\ t.ok = s.ok
                    /\ fails(t.lines) = fails(s.lines) + 1
                    /\ \E i \in 1..Len(t.lines) : t.lines[i] = Line("fail", s.buf)
    ]_vars

(* The file delivery of an ingested item and then its embedded fallback
   both failed: nothing was sent, the item is reported failed, not counted,
   and has no record *)
C18_Witness ==
  \E p \in Procs :
    /\ st[p].cmd = "ingest" /\ st[p].pc = "done" /\ st[p].n = 1
    /\ budget = MaxCmds - 1
    /\ faults = 2
    /\ st[p].sends = <<>>
    /\ st[p].ok = 0
    /\ \E i \in 1..Len(st[p].lines) :
         /\ st[p].lines[i].kind = "fail"
         /\ existsSync(BlobPath(today, st[p].lines[i].n))
         /\ \A r \in records : r.md5 # Md5(st[p].lines[i].n)

(* C19 as stated: a delivery step writes an ephemeral file, or schedules
   its deletion, only for an item without a persisted path (convert-only);
   an ingested or resent item is delivered as a file by reference to its
   persisted path. *)
C19_PersistedPathNoTemp ==
  [][\A p \in Procs :
       st'[p] # st[p] =>
         /\ (temps' # temps \/ timers' # timers) => st[p].cmd = "convert"
         /\ (/\ st[p].cmd \in {"ingest", "send"}
             /\ Len(st'[p].sends) > Len(st[p].sends)
             /\ st'[p].sends[Len(st'[p].sends)].type = "file")
            => st'[p].sends[Len(st'[p].sends)].ref = [t |-> 0, name |-> st[p].path]
    ]_vars

(* C19 amended: a file delivery references the persisted file and writes no
   ephemeral file exactly when fileTransferMode is "file" and the item has a
   persisted path (ingest or resend); when fileTransferMode is "buffer", and
   always in the convert-only flow, the delivery writes an ephemeral file,
   sends a reference to it, and schedules its deletion once the send has
   succeeded. *)
C19_TempUnlessFileTransfer ==
  [][\A p \in Procs :
       st'[p] # st[p] =>
         LET s == st[p]
             t == st'[p]
             direct == config.fileTransferMode = "file" /\ s.cmd \in {"ingest", "send"}
             sentFile == /\ Len(t.sends) > Len(s.sends)
                         /\ t.sends[Len(t.sends)].type = "file"
             last == t.sends[Len(t.sends)]
         IN /\ direct => temps' = temps /\ timers' = timers
            /\ (direct /\ sentFile) =>
                 /\ last.ref = [t |-> 0, name |-> s.path]
                 /\ s.path # NoPath
                 /\ last.data = s.buf
            /\ (~direct /\ sentFile) =>
                 /\ last.ref = s.tmp
                 /\ s.tmp \in temps
                 /\ s.tmp.name = FileNameOf(s)
                 /\ timers' = timers \cup {s.tmp}
            /\ temps' # temps => s.pc = "tmpwrite" /\ ~direct /\ temps' = temps \cup {t.tmp}
            /\ (s.pc \in {"tmpwrite", "sendfile"} /\ faults' # faults) => timers' = timers
    ]_vars

(* An ingested gif was delivered as a file by reference to its blob, with no
   ephemeral file written *)
C19_Witness ==
  \E p \in Procs :
    /\ st[p].cmd = "ingest"
    /\ config.fileTransferMode = "file"
    /\ temps = {} /\ timers = {}
    /\ \E i \in 1..Len(st[p].sends) :
         /\ st[p].sends[i].type = "file"
         /\ existsSync(st[p].sends[i].ref.name)

(* C20: round trip in one session: the row a successful ingest of content c
   inserts is the newest of its channel, carries the digest of c and refers
   to a blob holding c; a send of index 1 with no other operation in
   between selects the record created last, and every payload it delivers
   holds that record's blob, whose digest is the record's. *)
C20_RoundTrip ==
  /\ [](\A p \in Procs :
          LET s == st[p]
          IN (s.cmd = "send" /\ s.idx = 1 /\ s.rec # NoRec) =>
               /\ s.rec.id = nextId - 1
               /\ \A i \in 1..Len(s.sends) :
                    /\ Md5(s.sends[i].data) = s.rec.md5
                    /\ [path |-> s.rec.filePath, data |-> s.sends[i].data] \in files)
  /\ [][\A p \in Procs :
          (st[p].pc = "create" /\ records' # records) =>
            \E r \in records' \ records :
              /\ r.id = nextId
              /\ r.md5 = Md5(st[p].buf)
              /\ [path |-> r.filePath, data |-> st[p].buf] \in files'
              /\ \A q \in records' : q.channelId = r.channelId /\ q # r => q.createdAt < r.createdAt
     ]_vars

(* A content was ingested and then index 1 was sent: the payload is that
   content *)
C20_Witness ==
  \E p \in Procs :
    /\ st[p].cmd = "send" /\ st[p].idx = 1 /\ st[p].pc = "done"
    /\ st[p].rec.id > 2
    /\ st[p].sends # <<>>
    /\ Md5(st[p].sends[1].data) = st[p].rec.md5
    /\ st[p].sends[1].data \in scn.contents

(* C21: a step of a delete by index, a clear or a capacity eviction running
   in one channel removes no record of any other channel and leaves on disk
   every blob that a record of another channel refers to, also when both
   channels hold a record of the same content ingested on the same day. *)
C21_ChannelIsolation ==
  [][\A p \in Procs :
       (st'[p] # st[p]
        /\ st[p].pc \in {"ev_unlink", "ev_remove", "del_unlink", "del_remove",
                         "clr_wait", "clr_remove"})
       => \A r \in records :
            r.channelId # st[p].sess.channelId =>
              /\ r \in records'
              /\ existsSync(r.filePath) => \E f \in files' : f.path = r.filePath
    ]_vars

(* C22: every ephemeral file written by sendFileWithName is eventually
   deleted, also when the send that follows the write fails and the caller
   falls back to the embedded delivery.  The runs are finite, so this is:
   whenever the storage directory holds ephemeral files, a later state
   holds none. *)
C22_TempEventuallyDeleted == (temps # {}) ~> (temps = {})

(* C23: the success count of a convertEmoji batch is the number of rows the
   batch has inserted: the batch starts with count 0; a step of the batch
   raises the count exactly when it inserts a row, by one, and that step is
   the insert of the item's own row (its channel, its digest, its blob); a
   step that reports an item with the failure line or the dedup line inserts
   nothing; the count the batch returns is the count it kept. *)
C23_CountIsRowsInserted ==
  [][\A p \in Procs :
       (st'[p] # st[p] /\ st'[p].cmd = "ingest") =>
         LET s == st[p]
             t == st'[p]
             count(l, k) == Cardinality({i \in 1..Len(l) : l[i].kind = k})
             inserted == records' \ records
         IN /\ s.pc \in {"idle", "done"} => t.ok = 0
            /\ s.pc \notin {"idle", "done"} =>
                 /\ t.ok = s.ok + Cardinality(inserted)
                 /\ Cardinality(inserted) <= 1
                 /\ \A r \in inserted :
                      /\ s.pc = "create"
                      /\ r \notin records /\ r.id \notin {q.id : q \in records}
                      /\ r.channelId = s.sess.channelId
                      /\ r.md5 = Md5(s.buf) /\ r.filePath = s.path
                 /\ (count(t.lines, "fail") > count(s.lines, "fail")
                     \/ count(t.lines, "dup") > count(s.lines, "dup"))
                    => inserted = {}
            /\ t.pc = "done" /\ t.n > 0 => t.ret = Line("batch", t.ok)
    ]_vars

(* A batch of two returned count 1: the insert of one item threw after its
   delivery, the other item's row is the only row added *)
C23_Witness ==
  \E p \in Procs :
    /\ st[p].cmd = "ingest" /\ st[p].pc = "done" /\ st[p].n = 2
    /\ budget = MaxCmds - 2
    /\ st[p].ret = Line("batch", 1)
    /\ Cardinality(records) = 3
    /\ Len(st[p].sends) = 2
    /\ \E i \in 1..Len(st[p].lines) : st[p].lines[i].kind = "fail"

(* C24: no step of convertEmojiOnly changes the archive, whatever the batch
   and the delivery outcome: records, the id counter and the blob files stay
   as they are, the flow never enters the existence check, the governor, the
   blob write or the row insert, and the only file a step of it writes is
   the temp file temp_<time>_temp-<digest prefix>.<ext>; the deletion of a
   temp file touches neither records nor blobs. *)
C24_ConvertOnlyLeavesArchive ==
  /\ [](\A p \in Procs :
          st[p].cmd = "convert" =>
            /\ st[p].pc \in {"done", "item", "fetch", "tmpwrite", "sendfile",
                             "sendimg", "fallback"}
            /\ st[p].path = NoPath)
  /\ [][\A p \in Procs :
          (st'[p] # st[p] /\ st'[p].cmd = "convert") =>
            /\ records' = records /\ nextId' = nextId /\ files' = files
            /\ temps' # temps =>
                 /\ st[p].pc = "tmpwrite"
                 /\ temps' = temps \cup {[t |-> now, name |-> ConvertName(st[p].buf)]}
     ]_vars
  /\ [][temps' # temps /\ temps' \subseteq temps
        => (records' = records /\ files' = files)]_vars

(* A convert-only batch of two ended with one item delivered as a file and
   one failed; the archive is the one the run started with *)
C24_Witness ==
  \E p \in Procs :
    /\ st[p].cmd = "convert" /\ st[p].pc = "done" /\ st[p].n = 2
    /\ budget = MaxCmds - 2
    /\ st[p].ok = 1
    /\ \E i \in 1..Len(st[p].sends) : st[p].sends[i].type = "file"
    /\ \E i \in 1..Len(st[p].lines) : st[p].lines[i].kind = "fail"
    /\ records = Prepop("A", 2)
    /\ {f.path : f \in files} = {r.filePath : r \in records}

(* C25: the album is enabled for a channel iff enableAlbum is on and
   albumEnabledGroups is empty or contains the channel.  A convertEmoji,
   viewAlbum, sendEmoji, deleteEmoji or clearAlbum in a channel where it is
   not enabled returns at its first step with a refusal (the not-enabled
   answer, or the platform or missing-index answer that precedes it), having
   fetched, read, written and sent nothing; where it is enabled the
   not-enabled answer is never given; convertEmojiOnly never gives it. *)
C25_AlbumEnabling ==
  /\ [](\A ch \in Channels :
          isAlbumEnabledForGroup(ch) <=>
            (config.enableAlbum
             /\ (config.albumEnabledGroups = {} \/ ch \in config.albumEnabledGroups)))
  /\ [](\A p \in Procs :
          LET s == st[p]
              on == config.enableAlbum
                    /\ (config.albumEnabledGroups = {}
                        \/ s.sess.channelId \in config.albumEnabledGroups)
          IN /\ (s.cmd \in {"ingest", "list", "send", "delete", "clear"} /\ ~on) =>
                  /\ s.pc = "done"
                  /\ s.ret.kind \in {"disabled", "notonebot", "noindex"}
                  /\ s.ret.kind = "notonebot" => s.cmd = "ingest" /\ s.sess.platform # "onebot"
                  /\ s.ret.kind = "noindex" => s.cmd \in {"send", "delete"} /\ s.idx = 0
                  /\ s.sends = <<>> /\ s.lines = <<>> /\ s.buf = 0
                  /\ s.snap = <<>> /\ s.rec = NoRec /\ s.all = {}
             /\ s.ret.kind = "disabled" =>
                  ~on /\ s.cmd \in {"ingest", "list", "send", "delete", "clear"}
             /\ s.cmd = "convert" => s.ret.kind # "disabled")
  /\ [][\A p \in Procs :
          (/\ st'[p] # st[p]
           /\ st'[p].cmd \in {"ingest", "list", "send", "delete", "clear"}
           /\ ~(config.enableAlbum
                /\ (config.albumEnabledGroups = {}
                    \/ st'[p].sess.channelId \in config.albumEnabledGroups)))
          => /\ records' = records /\ files' = files /\ nextId' = nextId
             /\ temps' = temps /\ timers' = timers /\ faults' = faults
     ]_vars

(* With the toggle on and only channel B in the allowlist, a delete in
   channel A, which holds records, was refused as not enabled *)
C25_Witness ==
  \E p \in Procs :
    /\ config.enableAlbum /\ config.albumEnabledGroups = {"B"}
    /\ st[p].cmd = "delete" /\ st[p].sess.channelId = "A" /\ st[p].idx = 1
    /\ st[p].ret.kind = "disabled"
    /\ ChannelRecords("A") = Prepop("A", 2)
    /\ \A r \in ChannelRecords("A") : existsSync(r.filePath)

====
